---- MODULE Spec2Model ----
(***************************************************************************)
(* Navi: the object registry (GameObjectManager), the selection state, the *)
(* spawn event channel and the per-frame systems of src/engine.            *)
(*                                                                         *)
(* Two specifications are given.                                           *)
(*   Spec     the application as core.rs::run builds it: every frame runs  *)
(*            handle_input, shape_selection_ui, spawn_entity_system in     *)
(*            that order; the host may destroy spawned entities.           *)
(*   SpecReg  the public methods of GameObjectManager called in any order  *)
(*            by a client that passes entity handles obtained from the     *)
(*            host.                                                        *)
(***************************************************************************)
EXTENDS Integers, Sequences, FiniteSets, TLC

(***************************************************************************)
(* Bounds of the model.                                                    *)
(***************************************************************************)
\* width of the id counter in bits (u32 in the source, scaled down)
IdBits == 1
\* number of add_object calls explored
MaxAdds == 4
\* number of frames explored by the application
MaxTime == 5
\* number of spawn requests the input produces
MaxSpawns == 2
\* number of spawned entities the host destroys
MaxDespawns == 1

IdModulus == 2 ^ IdBits

VARIABLES
    objects,          \* GameObjectManager.objects : Vec<GameObject>
    next_id,          \* GameObjectManager.next_id : u32
    added_ids,        \* ids returned (and logged) by the add_object calls so far
    panicked,         \* the thread has panicked (arithmetic overflow check)
    overflow_checks,  \* build profile: TRUE = overflow checks on (debug)
    selected_shape,   \* SelectedShape.shape_type
    events_a,         \* Events<SpawnEntityEvent>: older buffer
    events_b,         \* Events<SpawnEntityEvent>: newer buffer
    event_count,      \* Events<SpawnEntityEvent>: number of events ever sent
    last_event_count, \* cursor of spawn_entity_system's EventReader
    entities,         \* entities alive in the host world
    next_entity,      \* the host's entity allocator
    tags,             \* GameObjectId component of each alive entity that has one
    transforms,       \* Transform.translation of each alive spawned entity
    removed,          \* RemovedComponents<GameObjectId>: <<older, newer>> buffers
    keys,             \* keys just pressed in the current frame
    time,             \* Time::elapsed of the current frame
    pc,               \* position in the frame's system chain
    ret               \* result of the last registry method call

vars == <<objects, next_id, added_ids, panicked, overflow_checks, selected_shape,
          events_a, events_b, event_count, last_event_count, entities,
          next_entity, tags, transforms, removed, keys, time, pc, ret>>

regVars == <<objects, next_id, added_ids, panicked>>
appVars == <<selected_shape, events_a, events_b, event_count, last_event_count,
             entities, tags, transforms, removed, keys, time, pc>>

(***************************************************************************)
(* ShapeType                                                               *)
(***************************************************************************)
ShapeAll == <<"Ball", "Cube", "Capsule", "Cylinder", "Cone">>

ShapeType == {ShapeAll[i] : i \in 1..Len(ShapeAll)}

display_name(shape) ==
    CASE shape = "Ball" -> "Ball"
      [] shape = "Cube" -> "Cube"
      [] shape = "Capsule" -> "Capsule"
      [] shape = "Cylinder" -> "Cylinder"
      [] shape = "Cone" -> "Cone"

\* Option<T>: None is <<>>, Some(v) is <<v>>
None == <<>>
Some(v) == <<v>>

\* Iterator::position: 0-based index of the first element passing the test;
\* passes[i] tells whether the i-th element passes it
Position(passes) ==
    IF \E i \in 1..Len(passes) : passes[i]
    THEN Some((CHOOSE i \in 1..Len(passes) :
                  passes[i] /\ \A j \in 1..(i - 1) : ~passes[j]) - 1)
    ELSE None

\* Iterator::find: the first element of s passing the test
Find(s, passes) ==
    LET p == Position(passes) IN IF p = None THEN None ELSE Some(s[p[1] + 1])

unwrap_or(opt, default) == IF opt = None THEN default ELSE opt[1]

(***************************************************************************)
(* GameObjectManager                                                       *)
(***************************************************************************)
\* a mutant of DefaultName: the separating space is missing
MutNameNoSpace(shape_type, id) == display_name(shape_type) \o ToString(id)

\* format!("{} {}", shape_type.display_name(), id)
DefaultName(shape_type, id) == display_name(shape_type) \o " " \o ToString(id)

ObjectName(custom_name, shape_type, id) ==
    IF custom_name = None THEN DefaultName(shape_type, id) ELSE custom_name[1]

NewGameObject(id, entity, shape_type, position, custom_name, timestamp) ==
    [id |-> id,
     name |-> ObjectName(custom_name, shape_type, id),
     entity |-> entity,
     shape_type |-> shape_type,
     position |-> position,
     created_at |-> timestamp]

\* self.next_id += 1 overflows the counter's width
IncrementOverflows(n) == n + 1 >= IdModulus

\* self.next_id += 1 without overflow checks
WrappingIncrement(n) == (n + 1) % IdModulus

\* self.objects.push(game_object)
PushObject(objs, obj) == Append(objs, obj)

\* The registry as a value: what add_object reads and writes.
Registry(objs, nid, log, dead) ==
    [objects |-> objs, next_id |-> nid, added_ids |-> log, panicked |-> dead]

\* GameObjectManager::add_object.  The push happens before the increment; with
\* overflow checks the increment at the largest id panics before the function
\* logs and returns, without them it wraps to 0.
add_object(reg, checks, entity, shape_type, position, custom_name, timestamp) ==
    LET id == reg.next_id
        pushed == PushObject(reg.objects,
                      NewGameObject(id, entity, shape_type, position,
                                    custom_name, timestamp))
    IN  IF IncrementOverflows(reg.next_id) /\ checks
        THEN Registry(pushed, reg.next_id, reg.added_ids, TRUE)
        ELSE Registry(pushed, WrappingIncrement(reg.next_id),
                      Append(reg.added_ids, id), FALSE)

\* a mutant of VecRemove: the index is taken as 1-based
MutRemoveOffByOne(s, i) == SubSeq(s, 1, i + 1) \o SubSeq(s, i + 3, Len(s))

\* a mutant of VecRemove: Vec::swap_remove
MutSwapRemove(s, i) ==
    IF i = Len(s) - 1 THEN SubSeq(s, 1, Len(s) - 1)
    ELSE SubSeq(s, 1, i) \o <<s[Len(s)]>> \o SubSeq(s, i + 2, Len(s) - 1)

\* Vec::remove(index), index 0-based
VecRemove(s, i) == SubSeq(s, 1, i) \o SubSeq(s, i + 2, Len(s))

\* a mutant of EntityIndex: the last object is taken when the entity is absent
MutEntityIndexOrLast(objs, entity) ==
    LET p == Position([i \in 1..Len(objs) |-> objs[i].entity = entity])
    IN  IF p = None /\ Len(objs) > 0 THEN Some(Len(objs) - 1) ELSE p

\* self.objects.iter().position(|obj| obj.entity == entity)
EntityIndex(objs, entity) ==
    Position([i \in 1..Len(objs) |-> objs[i].entity = entity])

\* GameObjectManager::remove_object: the objects left, and the value returned
remove_object(objs, entity) ==
    LET index == EntityIndex(objs, entity)
    IN  IF index # None
        THEN [objects |-> VecRemove(objs, index[1]), value |-> Some(objs[index[1] + 1])]
        ELSE [objects |-> objs, value |-> None]

get_object_by_entity(objs, entity) ==
    Find(objs, [i \in 1..Len(objs) |-> objs[i].entity = entity])

get_object_by_id(objs, id) ==
    Find(objs, [i \in 1..Len(objs) |-> objs[i].id = id])

\* format!("{} (ID: {}, Type: {})", obj.name, obj.id, obj.shape_type.display_name())
ObjectLine(obj) ==
    obj.name \o " (ID: " \o ToString(obj.id) \o ", Type: "
             \o display_name(obj.shape_type) \o ")"

list_objects(objs) == [i \in 1..Len(objs) |-> ObjectLine(objs[i])]

\* a mutant of update_position: the search for the entity is missing
MutUpdateEveryObject(objs, entity, translation) ==
    [i \in 1..Len(objs) |-> [objs[i] EXCEPT !.position = translation]]

\* the body of update_object_positions_system for one (entity, transform) item
update_position(objs, entity, translation) ==
    LET index == EntityIndex(objs, entity)
    IN  IF index # None
        THEN [objs EXCEPT ![index[1] + 1].position = translation]
        ELSE objs

(***************************************************************************)
(* The host: entities, events, removal notifications, input                *)
(***************************************************************************)
\* setup_graphics spawns the camera; setup_physics the ground and a ball
StartupEntities == {0, 1, 2}

\* the first handle the allocator gives out after startup
FirstFreeEntity == Cardinality(StartupEntities)

Keys == {"Space", "Tab", "KeyL"}

\* Vec3::new(x, 4.0, z) with x, z = (rand::random::<f32>() - 0.5) * 10.0:
\* two representative draws
SpawnPositions == {<<-1, 4, 1>>, <<1, 4, -1>>}

NoTags == [e \in {} |-> None]

\* Events::update: the newer buffer becomes the older one
EventsUpdate(a, b) == [a |-> b, b |-> <<>>]

\* a mutant of UnreadEvents: every buffered event is read again
MutReadAllBuffered(a, b, count, cursor) == a \o b

\* EventReader::read: the buffered events the reader has not seen yet
UnreadEvents(a, b, count, cursor) ==
    LET all == a \o b
        start == count - Len(all)
        skip == IF cursor > start THEN cursor - start ELSE 0
    IN  SubSeq(all, skip + 1, Len(all))

\* a mutant of ReaderCursorAfterRead: the reader forgets what it has read
MutCursorStays(count, cursor) == cursor

\* EventReader::read leaves the cursor at the number of events sent
ReaderCursorAfterRead(count, cursor) == count

\* a mutant of SpawnedEntityId: the handle of the previous spawn is reused
MutReuseEntity(allocator) == IF allocator > FirstFreeEntity THEN allocator - 1 ELSE allocator

\* commands.spawn(..).id(): a handle no alive or earlier entity has
SpawnedEntityId(allocator) == allocator

\* a mutant of ChainAfter: shape_selection_ui is chained before handle_input
MutChainUiFirst(stage) ==
    CASE stage = "first" -> "shape_selection_ui"
      [] stage = "shape_selection_ui" -> "handle_input"
      [] stage = "handle_input" -> "spawn_entity_system"
      [] stage = "spawn_entity_system" -> "last"

\* (handle_input, shape_selection_ui, spawn_entity_system).chain() in Update:
\* the system that runs after a stage of the frame
ChainAfter(stage) ==
    CASE stage = "first" -> "handle_input"
      [] stage = "handle_input" -> "shape_selection_ui"
      [] stage = "shape_selection_ui" -> "spawn_entity_system"
      [] stage = "spawn_entity_system" -> "last"

\* keyboard_input.just_pressed(KeyCode::Space)
SpacePressed(pressed) == "Space" \in pressed

\* a mutant of TabPressed: the test is made on another key
MutWrongKeyPressed(pressed) == "KeyL" \in pressed

\* keyboard_input.just_pressed(KeyCode::Tab)
TabPressed(pressed) == "Tab" \in pressed

(***************************************************************************)
(* Systems                                                                 *)
(***************************************************************************)
Init ==
    /\ objects = <<>>
    /\ next_id = 0
    /\ added_ids = <<>>
    /\ panicked = FALSE
    /\ overflow_checks \in BOOLEAN
    /\ selected_shape = "Ball"
    /\ events_a = <<>>
    /\ events_b = <<>>
    /\ event_count = 0
    /\ last_event_count = 0
    /\ entities = StartupEntities
    /\ next_entity = FirstFreeEntity
    /\ tags = NoTags
    /\ transforms = NoTags
    /\ removed = <<{}, {}>>
    /\ keys = {}
    /\ time = 0
    /\ pc = "first"
    /\ ret = [op |-> "none"]

\* First / PreUpdate: the event buffers rotate, the clock and the keyboard
\* state are refreshed
BeginFrame ==
    /\ pc = "first"
    /\ ~panicked
    /\ time < MaxTime
    /\ time' = time + 1
    /\ \E pressed \in SUBSET Keys :
        /\ "Space" \in pressed => event_count < MaxSpawns
        /\ keys' = pressed
    /\ events_a' = EventsUpdate(events_a, events_b).a
    /\ events_b' = EventsUpdate(events_a, events_b).b
    /\ pc' = ChainAfter(pc)
    /\ UNCHANGED <<regVars, overflow_checks, selected_shape, event_count,
                   last_event_count, entities, next_entity, tags, transforms,
                   removed, ret>>

\* input.rs handle_input
handle_input ==
    /\ pc = "handle_input"
    /\ IF SpacePressed(keys)
       THEN \E position \in SpawnPositions :
                /\ events_b' = Append(events_b,
                                  [position |-> position,
                                   shape_type |-> selected_shape,
                                   custom_name |-> Some("bob")])
                /\ event_count' = event_count + 1
       ELSE UNCHANGED <<events_b, event_count>>
    /\ pc' = ChainAfter(pc)
    /\ UNCHANGED <<regVars, overflow_checks, selected_shape, events_a,
                   last_event_count, entities, next_entity, tags, transforms,
                   removed, keys, time, ret>>

\* a mutant of NextShape: the wraparound is missing
MutNextShapeSaturates(shape) ==
    LET current_index ==
            unwrap_or(Position([i \in 1..Len(ShapeAll) |-> ShapeAll[i] = shape]), 0)
    IN  IF current_index + 1 < Len(ShapeAll) THEN ShapeAll[current_index + 2]
        ELSE ShapeAll[current_index + 1]

\* shape_selection_ui, the Tab branch: the next shape in ShapeType::all()
NextShape(shape) ==
    LET current_index ==
            unwrap_or(Position([i \in 1..Len(ShapeAll) |-> ShapeAll[i] = shape]), 0)
        next_index == (current_index + 1) % Len(ShapeAll)
    IN  ShapeAll[next_index + 1]

\* shape_selection_ui; the KeyL branch only logs list_objects()
shape_selection_ui ==
    /\ pc = "shape_selection_ui"
    /\ selected_shape' = IF TabPressed(keys) THEN NextShape(selected_shape)
                         ELSE selected_shape
    /\ pc' = ChainAfter(pc)
    /\ UNCHANGED <<regVars, overflow_checks, events_a, events_b, event_count,
                   last_event_count, entities, next_entity, tags, transforms,
                   removed, keys, time, ret>>

\* a mutant of NewGameObjectId: the custom name is left out of the tag
MutTagDefaultName(object_id, event, now) ==
    [id |-> object_id,
     name |-> DefaultName(event.shape_type, object_id),
     shape_type |-> event.shape_type,
     created_at |-> now]

\* GameObjectId { id, name, shape_type, created_at } as spawn_entity_system builds it
NewGameObjectId(object_id, event, now) ==
    [id |-> object_id,
     name |-> unwrap_or(event.custom_name,
                        DefaultName(event.shape_type, object_id)),
     shape_type |-> event.shape_type,
     created_at |-> now]

\* the loop of spawn_entity_system over the events read; st carries the
\* registry, the entity allocator and the queued commands (entity, tag,
\* translation)
RECURSIVE SpawnLoop(_, _, _, _)
SpawnLoop(evs, st, checks, now) ==
    IF evs = <<>> \/ st.reg.panicked THEN st
    ELSE LET event == Head(evs)
             entity == SpawnedEntityId(st.allocator)
             reg == add_object(st.reg, checks, entity, event.shape_type,
                               event.position, event.custom_name, now)
             cmds == IF reg.panicked THEN st.commands
                     ELSE Append(st.commands,
                              <<entity, NewGameObjectId(reg.added_ids[Len(reg.added_ids)],
                                                        event, now),
                                event.position>>)
         IN  SpawnLoop(Tail(evs),
                       [reg |-> reg, allocator |-> st.allocator + 1, commands |-> cmds],
                       checks, now)

\* spawn_entity_system, with its command queue applied at the end of Update;
\* a panic takes the application down before the queue is applied
spawn_entity_system ==
    /\ pc = "spawn_entity_system"
    /\ LET evs == UnreadEvents(events_a, events_b, event_count, last_event_count)
           st == SpawnLoop(evs,
                     [reg |-> Registry(objects, next_id, added_ids, panicked),
                      allocator |-> next_entity, commands |-> <<>>],
                     overflow_checks, time)
           spawned == {st.commands[i][1] : i \in 1..Len(st.commands)}
           TagOf(e) == (CHOOSE i \in 1..Len(st.commands) : st.commands[i][1] = e)
       IN  /\ objects' = st.reg.objects
           /\ next_id' = st.reg.next_id
           /\ added_ids' = st.reg.added_ids
           /\ panicked' = st.reg.panicked
           /\ next_entity' = st.allocator
           /\ last_event_count' = ReaderCursorAfterRead(event_count, last_event_count)
           /\ IF st.reg.panicked
              THEN UNCHANGED <<entities, tags, transforms>>
              ELSE /\ entities' = entities \cup spawned
                   /\ tags' = [e \in DOMAIN tags \cup spawned |->
                                 IF e \in spawned THEN st.commands[TagOf(e)][2]
                                 ELSE tags[e]]
                   /\ transforms' = [e \in DOMAIN transforms \cup spawned |->
                                 IF e \in spawned THEN st.commands[TagOf(e)][3]
                                 ELSE transforms[e]]
    /\ pc' = ChainAfter(pc)
    /\ UNCHANGED <<overflow_checks, selected_shape, events_a, events_b,
                   event_count, removed, keys, time, ret>>

\* the entities the host has destroyed
Destroyed == (0..(next_entity - 1)) \ entities

\* between frames the host destroys a spawned entity: its GameObjectId
\* component goes with it and a RemovedComponents<GameObjectId> notification
\* is buffered
HostDespawn ==
    /\ pc = "first"
    /\ ~panicked
    /\ Cardinality(Destroyed) < MaxDespawns
    /\ \E e \in DOMAIN tags :
        /\ entities' = entities \ {e}
        /\ tags' = [x \in DOMAIN tags \ {e} |-> tags[x]]
        /\ transforms' = [x \in DOMAIN transforms \ {e} |-> transforms[x]]
        /\ removed' = <<removed[1], removed[2] \cup {e}>>
    /\ UNCHANGED <<regVars, overflow_checks, selected_shape, events_a, events_b,
                   event_count, last_event_count, next_entity, keys, time, pc, ret>>

\* end of the frame: World::clear_trackers rotates the removal buffers and
\* the just-pressed keys are cleared.  No system of the application reads
\* RemovedComponents<GameObjectId>: cleanup_destroyed_entities_system and
\* update_object_positions_system are defined in objects.rs and never added
\* to the App.
EndFrame ==
    /\ pc = "last"
    /\ ~panicked
    /\ removed' = <<removed[2], {}>>
    /\ keys' = {}
    /\ pc' = "first"
    /\ UNCHANGED <<regVars, overflow_checks, selected_shape, events_a, events_b,
                   event_count, last_event_count, entities, next_entity, tags,
                   transforms, time, ret>>

Next ==
    \/ BeginFrame
    \/ handle_input
    \/ shape_selection_ui
    \/ spawn_entity_system
    \/ HostDespawn
    \/ EndFrame

Spec == Init /\ [][Next]_vars

(***************************************************************************)
(* SpecQueue: the application with a second producer of spawn requests     *)
(* (SpawnEntityEvent is public and carries an optional custom name), so    *)
(* that one cycle can queue several requests.                              *)
(***************************************************************************)
\* the position the second producer asks for
ProducerPositions == {<<0, 4, 0>>}

\* a system ordered before the chain sends a request without a custom name
send_spawn_event ==
    /\ pc = "handle_input"
    /\ event_count < MaxSpawns
    /\ \E position \in ProducerPositions :
        events_b' = Append(events_b,
                        [position |-> position,
                         shape_type |-> selected_shape,
                         custom_name |-> None])
    /\ event_count' = event_count + 1
    /\ UNCHANGED <<regVars, overflow_checks, selected_shape, events_a,
                   last_event_count, entities, next_entity, tags, transforms,
                   removed, keys, time, pc, ret>>

NextQueue ==
    \/ BeginFrame
    \/ send_spawn_event
    \/ handle_input
    \/ shape_selection_ui
    \/ spawn_entity_system
    \/ EndFrame

SpecQueue == Init /\ [][NextQueue]_vars

(***************************************************************************)
(* SpecWorld: the application with the host's physics moving the spawned   *)
(* entities.  No system of the application reads the transforms, so Spec   *)
(* leaves the moves out.                                                   *)
(***************************************************************************)
\* translations reported by a changed Transform
MovedPositions == {<<0, 0, 0>>}

\* between frames the host changes the Transform of a tagged entity
HostMove ==
    /\ pc = "first"
    /\ ~panicked
    /\ \E e \in DOMAIN tags, translation \in MovedPositions :
        /\ transforms[e] # translation
        /\ transforms' = [transforms EXCEPT ![e] = translation]
    /\ UNCHANGED <<regVars, overflow_checks, selected_shape, events_a, events_b,
                   event_count, last_event_count, entities, next_entity, tags,
                   removed, keys, time, pc, ret>>

NextWorld ==
    \/ BeginFrame
    \/ handle_input
    \/ shape_selection_ui
    \/ spawn_entity_system
    \/ HostDespawn
    \/ HostMove
    \/ EndFrame

SpecWorld == Init /\ [][NextWorld]_vars

(***************************************************************************)
(* SpecReg: a client of GameObjectManager calling its methods in any order *)
(***************************************************************************)
\* argument tuples (shape_type, position, custom_name, timestamp) of add_object
AddArgs ==
    {[shape_type |-> "Ball", position |-> <<0, 4, 0>>, custom_name |-> None,
      timestamp |-> 0],
     [shape_type |-> "Cube", position |-> <<1, 4, 0>>, custom_name |-> Some("bob"),
      timestamp |-> 1]}

\* add_object called with the handle of an entity the client has just spawned
call_add_object ==
    /\ ~panicked
    /\ next_entity - FirstFreeEntity < MaxAdds
    /\ \E arg \in AddArgs :
        LET entity == SpawnedEntityId(next_entity)
            reg == add_object(Registry(objects, next_id, added_ids, panicked),
                              overflow_checks, entity, arg.shape_type,
                              arg.position, arg.custom_name, arg.timestamp)
        IN  /\ objects' = reg.objects
            /\ next_id' = reg.next_id
            /\ added_ids' = reg.added_ids
            /\ panicked' = reg.panicked
            /\ entities' = entities \cup {entity}
            /\ next_entity' = next_entity + 1
            /\ ret' = [op |-> "add_object", entity |-> entity, args |-> arg,
                       value |-> IF reg.panicked THEN None ELSE Some(next_id)]
    /\ UNCHANGED <<overflow_checks, selected_shape, events_a, events_b,
                   event_count, last_event_count, tags, transforms, removed,
                   keys, time, pc>>

\* remove_object called with any entity handle the host has given out
call_remove_object ==
    /\ ~panicked
    /\ \E entity \in 0..(next_entity - 1) :
        LET r == remove_object(objects, entity)
        IN  /\ objects' = r.objects
            /\ ret' = [op |-> "remove_object", entity |-> entity, value |-> r.value]
    /\ UNCHANGED <<next_id, added_ids, panicked, overflow_checks, appVars,
                   next_entity>>

\* the position refresh called for any entity handle
call_update_position ==
    /\ ~panicked
    /\ \E entity \in 0..(next_entity - 1), translation \in MovedPositions :
        /\ objects' = update_position(objects, entity, translation)
        /\ ret' = [op |-> "update_position", entity |-> entity]
    /\ UNCHANGED <<next_id, added_ids, panicked, overflow_checks, appVars,
                   next_entity>>

NextReg ==
    \/ call_add_object
    \/ call_remove_object
    \/ call_update_position

SpecReg == Init /\ [][NextReg]_vars

(***************************************************************************)
(* Properties                                                              *)
(***************************************************************************)
\* a step of SpecReg that is a call of the named method
IsCall(op) == ret'.op = op /\ ret' # ret

\* the line numbers of the objects referencing an entity
Referencing(objs, entity) == {i \in 1..Len(objs) : objs[i].entity = entity}

\* C1: the k-th add_object call (counting from 0) returns id k, so the ids
\* returned start at 0, go up by one and are never repeated, whatever
\* remove_object calls come between.
C1_KthAddReturnsK ==
    \A k \in 1..Len(added_ids) : added_ids[k] = k - 1

\* C2: no two objects held in the registry reference the same entity.
C2_EntityUnique ==
    \A i, j \in 1..Len(objects) :
        i # j => objects[i].entity # objects[j].entity

C2_Witness ==
    /\ Len(objects) >= 2
    /\ Destroyed # {}
    /\ pc = "last"

\* C3: remove_object(e) on an entity some object references returns that
\* object, shortens the registry by exactly one, and get_object_by_entity(e)
\* right after it is absent.
C3_RemovePresent ==
    [][(IsCall("remove_object") /\ Referencing(objects, ret'.entity) # {}) =>
          LET e == ret'.entity
              first == CHOOSE i \in Referencing(objects, e) :
                           \A j \in Referencing(objects, e) : i <= j
          IN  /\ ret'.value = Some(objects[first])
              /\ Len(objects') = Len(objects) - 1
              /\ get_object_by_entity(objects', e) = None]_vars

C3_Witness ==
    /\ ret.op = "remove_object"
    /\ ret.value # None
    /\ Len(objects) >= 2

\* C4: remove_object(e) on an entity no object references returns None and
\* leaves objects and next_id as they were, also when e was removed by an
\* earlier call.
C4_RemoveAbsent ==
    [][(IsCall("remove_object") /\ Referencing(objects, ret'.entity) = {}) =>
          /\ ret'.value = None
          /\ objects' = objects
          /\ next_id' = next_id]_vars

\* a second remove_object of an entity that was registered and removed
C4_Witness ==
    /\ ret.op = "remove_object"
    /\ ret.value = None
    /\ ret.entity >= FirstFreeEntity
    /\ Len(objects) >= 1

\* C5: once the host has destroyed an entity and the cycles in which its
\* removal notification can be delivered are over, the registry holds no
\* object referencing it.
C5_DestroyedEntityEvicted ==
    \A i \in 1..Len(objects) :
        objects[i].entity \in entities \cup removed[1] \cup removed[2]

\* C6: get_object_by_id(id) right after add_object returned id gives the
\* object just added, and the lookup by the id of any object still held
\* keeps giving that object.
C6_ReadAfterWrite ==
    /\ (ret.op = "add_object" /\ ret.value # None) =>
          LET found == get_object_by_id(objects, ret.value[1])
          IN  /\ found # None
              /\ found[1].id = ret.value[1]
              /\ found[1].entity = ret.entity
              /\ found[1].shape_type = ret.args.shape_type
              /\ found[1].position = ret.args.position
              /\ found[1].created_at = ret.args.timestamp
    /\ \A i \in 1..Len(objects) :
          get_object_by_id(objects, objects[i].id) = Some(objects[i])

\* C7: list_objects gives one line per object in insertion order: an add
\* puts its line last, a remove deletes one line and keeps the others in
\* order.  (Entity handles are given out in increasing order, so the order of
\* insertion is the order of the handles.)
C7_ListInsertionOrder ==
    /\ [](/\ Len(list_objects(objects)) = Len(objects)
          /\ \A i, j \in 1..Len(objects) :
                i < j => objects[i].entity < objects[j].entity)
    /\ [][/\ IsCall("add_object") =>
                /\ Len(list_objects(objects')) = Len(objects) + 1
                /\ SubSeq(list_objects(objects'), 1, Len(objects))
                       = list_objects(objects)
                /\ objects'[Len(objects')].entity = ret'.entity
          /\ (IsCall("remove_object") /\ ret'.value # None) =>
                \E k \in 1..Len(objects) :
                    /\ objects[k].entity = ret'.entity
                    /\ list_objects(objects')
                         = SubSeq(list_objects(objects), 1, k - 1)
                             \o SubSeq(list_objects(objects), k + 1, Len(objects))]_vars

\* A, B, C added, B removed, D added: the registry is A, C, D
C7_Witness ==
    /\ Len(objects) = 3
    /\ objects[1].entity = FirstFreeEntity
    /\ objects[2].entity = FirstFreeEntity + 2
    /\ objects[3].entity = FirstFreeEntity + 3

\* the order of the catalog as the specification states it
CycleOrder(shape) ==
    CASE shape = "Ball" -> "Cube"
      [] shape = "Cube" -> "Capsule"
      [] shape = "Capsule" -> "Cylinder"
      [] shape = "Cylinder" -> "Cone"
      [] shape = "Cone" -> "Ball"

\* C8: the Tab command moves the selection to the next kind in the order
\* Ball, Cube, Capsule, Cylinder, Cone, Ball; five cycles from the selected
\* kind come back to it.
C8_TabCycles ==
    /\ [][(pc = "shape_selection_ui" /\ "Tab" \in keys) =>
              selected_shape' = CycleOrder(selected_shape)]_vars
    /\ [](NextShape(NextShape(NextShape(NextShape(NextShape(selected_shape)))))
              = selected_shape)

\* the Tab command has just wrapped from Cone to Ball
C8_Witness ==
    /\ pc = "spawn_entity_system"
    /\ "Tab" \in keys
    /\ selected_shape = "Ball"

\* C9: next_id never decreases: add_object raises it by exactly one and does
\* not fail, remove_object and the position refresh leave it alone.
C9_CounterOnlyIncrements ==
    [][/\ next_id' >= next_id
       /\ IsCall("add_object") => (next_id' = next_id + 1 /\ ~panicked')
       /\ (IsCall("remove_object") \/ IsCall("update_position")) =>
              next_id' = next_id]_vars

\* C10: every spawn request is consumed in the cycle that produced it, by
\* exactly one add_object call that adds exactly one object; none is applied
\* again later and none is lost.
C10_RequestConsumedOnce ==
    /\ [](/\ pc \in {"last", "first"} =>
                /\ last_event_count = event_count
                /\ next_entity - FirstFreeEntity = event_count
          /\ next_entity - FirstFreeEntity <= event_count)
    /\ [][pc = "spawn_entity_system" =>
              /\ Len(objects') = Len(objects) + Len(events_b)
              /\ SubSeq(objects', 1, Len(objects)) = objects
              /\ \A k \in 1..Len(events_b) :
                    /\ objects'[Len(objects) + k].shape_type = events_b[k].shape_type
                    /\ objects'[Len(objects) + k].position = events_b[k].position]_vars

C10_Witness ==
    /\ pc = "last"
    /\ event_count = 2
    /\ Len(objects) = 2
    /\ time > 2

\* C11: the requests queued in one cycle are applied in the order queued:
\* each gets its object, and of two requests the earlier one's object has
\* the smaller id and the earlier place in the registry.
C11_FifoOrder ==
    [][pc = "spawn_entity_system" =>
          LET n == Len(objects)
              Applied(k) ==
                  /\ objects'[n + k].shape_type = events_b[k].shape_type
                  /\ objects'[n + k].position = events_b[k].position
                  /\ events_b[k].custom_name # None =>
                        objects'[n + k].name = events_b[k].custom_name[1]
          IN  /\ Len(objects') = n + Len(events_b)
              /\ \A k, l \in 1..Len(events_b) :
                    k < l => /\ Applied(k)
                             /\ Applied(l)
                             /\ objects'[n + k].id < objects'[n + l].id]_vars

\* C12: handle_input runs before shape_selection_ui, which runs before
\* spawn_entity_system: with Space and Tab pressed in one cycle the request
\* and the object registered in that cycle carry the shape selected before
\* the Tab command, and the selection is already the next one.
C12_InputBeforeCycle ==
    [][/\ (pc = "shape_selection_ui" /\ "Space" \in keys /\ "Tab" \in keys) =>
             /\ Len(events_b) >= 1
             /\ events_b[Len(events_b)].shape_type = selected_shape
             /\ selected_shape' = CycleOrder(selected_shape)
       /\ (pc = "spawn_entity_system" /\ "Space" \in keys /\ "Tab" \in keys) =>
             /\ Len(objects') = Len(objects) + 1
             /\ Len(events_b) >= 1
             /\ objects'[Len(objects')].shape_type
                    = events_b[Len(events_b)].shape_type
             /\ selected_shape = CycleOrder(objects'[Len(objects')].shape_type)
       /\ (pc = "spawn_entity_system" /\ "Space" \in keys /\ "Tab" \notin keys) =>
             /\ Len(objects') = Len(objects) + 1
             /\ objects'[Len(objects')].shape_type = selected_shape]_vars

\* Space and Tab in a second cycle: the object has the shape the first
\* cycle's Tab selected, the selection has moved on
C12_Witness ==
    /\ pc = "last"
    /\ "Space" \in keys
    /\ "Tab" \in keys
    /\ Len(objects) >= 1
    /\ objects[Len(objects)].shape_type = "Cube"
    /\ selected_shape = "Capsule"

\* C13: when every system of a cycle has run, the cached position of every
\* registered entity is the translation the host gave it before the cycle.
C13_PositionRefreshed ==
    pc = "last" =>
        \A i \in 1..Len(objects) :
            objects[i].entity \in DOMAIN transforms =>
                objects[i].position = transforms[objects[i].entity]

\* the decimal numeral of an id, as {} formats it
Decimal(n) ==
    CASE n = 0 -> "0" [] n = 1 -> "1" [] n = 2 -> "2" [] n = 3 -> "3"
      [] n = 4 -> "4" [] n = 5 -> "5" [] n = 6 -> "6" [] n = 7 -> "7"
      [] n = 8 -> "8" [] n = 9 -> "9"

\* C14: add_object names the object by the custom name when one is given
\* and "<label> <id>" otherwise; list_objects renders every object as
\* "<name> (ID: <id>, Type: <label>)"; after add(e1, Ball, None) -> 0,
\* add(e2, Cube, Some("bob")) -> 1 and remove(e1), id 0 is absent and the
\* listing is exactly "bob (ID: 1, Type: Cube)".
C14_NamesAndLines ==
    /\ [][IsCall("add_object") =>
              objects'[Len(objects')].name
                  = IF ret'.args.custom_name = None
                    THEN ret'.args.shape_type \o " " \o Decimal(next_id)
                    ELSE ret'.args.custom_name[1]]_vars
    /\ [](/\ Len(list_objects(objects)) = Len(objects)
          /\ \A i \in 1..Len(objects) :
                list_objects(objects)[i]
                    = objects[i].name \o " (ID: " \o Decimal(objects[i].id)
                        \o ", Type: " \o objects[i].shape_type \o ")")
    /\ []((/\ added_ids = <<0, 1>>
           /\ ret.op = "remove_object"
           /\ ret.value # None
           /\ Len(objects) = 1
           /\ objects[1].entity = FirstFreeEntity + 1
           /\ objects[1].shape_type = "Cube"
           /\ objects[1].name = "bob") =>
              /\ get_object_by_id(objects, 0) = None
              /\ list_objects(objects) = <<"bob (ID: 1, Type: Cube)">>)

\* the scenario: "Ball 0" and "bob" added, "Ball 0" removed
C14_Witness ==
    /\ added_ids = <<0, 1>>
    /\ ret.op = "remove_object"
    /\ ret.value # None
    /\ ret.value[1].name = "Ball 0"
    /\ ret.value[1].id = 0
    /\ Len(objects) = 1
    /\ objects[1].name = "bob"
    /\ objects[1].id = 1
    /\ objects[1].shape_type = "Cube"

\* C15: the GameObjectId tag of an entity carries the id, name, shape and
\* creation time of the registry object referencing that entity, as long as
\* both exist.
C15_TagMatchesObject ==
    \A i \in 1..Len(objects) :
        objects[i].entity \in DOMAIN tags =>
            /\ tags[objects[i].entity].id = objects[i].id
            /\ tags[objects[i].entity].name = objects[i].name
            /\ tags[objects[i].entity].shape_type = objects[i].shape_type
            /\ tags[objects[i].entity].created_at = objects[i].created_at

\* a tagged object with a default name and one with a custom name, in a
\* later cycle
C15_Witness ==
    /\ pc = "handle_input"
    /\ time >= 2
    /\ \E i, j \in 1..Len(objects) :
        /\ objects[i].entity \in DOMAIN tags
        /\ objects[j].entity \in DOMAIN tags
        /\ objects[i].name = "Ball 0"
        /\ objects[j].name = "bob"

\* C16: the position refresh for an entity changes nothing but the position
\* of the first object referencing it; with no such object it changes
\* nothing.
C16_RefreshFrame ==
    [][IsCall("update_position") =>
          LET R == Referencing(objects, ret'.entity)
          IN  /\ Len(objects') = Len(objects)
              /\ next_id' = next_id
              /\ R = {} => objects' = objects
              /\ R # {} =>
                    LET first == CHOOSE i \in R : \A j \in R : i <= j
                    IN  /\ \A i \in 1..Len(objects) :
                              i # first => objects'[i] = objects[i]
                        /\ objects'[first]
                              = [objects[first] EXCEPT
                                    !.position = objects'[first].position]]_vars

\* a refresh has moved one of several objects
C16_Witness ==
    /\ ret.op = "update_position"
    /\ Len(objects) >= 2
    /\ \E i, j \in 1..Len(objects) :
        /\ objects[i].entity = ret.entity
        /\ objects[i].position \in MovedPositions
        /\ objects[j].position \notin MovedPositions

\* C17: the selection starts as Ball, only the Tab command changes it, and
\* shape_selection_ui leaves the registry alone.
C17_SelectionFrame ==
    /\ selected_shape = "Ball"
    /\ [][/\ selected_shape' # selected_shape =>
                (pc = "shape_selection_ui" /\ "Tab" \in keys)
          /\ pc = "shape_selection_ui" =>
                (objects' = objects /\ next_id' = next_id)]_vars

\* a cycle with Space, Tab and KeyL pressed, after the Tab command and with
\* a registered object
C17_Witness ==
    /\ pc = "last"
    /\ keys = Keys
    /\ Len(objects) >= 2
    /\ selected_shape = "Capsule"

\* C18: the ids in the registry increase from front to back and are below
\* next_id, next_id is the number of add_object calls made, and the length
\* is that number less the removals that returned an object.
C18_RegistryCounters ==
    LET adds == next_entity - FirstFreeEntity
        removals == Cardinality({e \in FirstFreeEntity..(next_entity - 1) :
                                    Referencing(objects, e) = {}})
    IN  /\ \A i, j \in 1..Len(objects) :
              i < j => objects[i].id < objects[j].id
        /\ \A i \in 1..Len(objects) : objects[i].id < next_id
        /\ next_id = adds
        /\ Len(objects) = adds - removals

\* C19: at startup the registry is empty with next_id = 0 while the world
\* holds the camera, the ground and the ball; these never get a registry
\* object or a tag; the registry changes only when spawn_entity_system
\* runs in a cycle that produced a spawn request.
C19_OnlySpawnedRegistered ==
    /\ objects = <<>> /\ next_id = 0 /\ entities = StartupEntities
    /\ [](/\ \A i \in 1..Len(objects) : objects[i].entity \notin StartupEntities
          /\ DOMAIN tags \cap StartupEntities = {})
    /\ [][(objects' # objects \/ next_id' # next_id \/ tags' # tags) =>
              \/ pc = "spawn_entity_system" /\ "Space" \in keys
              \/ pc = "first" /\ objects' = objects /\ next_id' = next_id]_vars

\* a cycle without a spawn request has run after one with a request
C19_Witness ==
    /\ pc = "last"
    /\ "Space" \notin keys
    /\ Len(objects) = 1
    /\ objects[1].created_at < time
    /\ StartupEntities \subseteq entities

====
